---------------------------- MODULE Spec2Model ----------------------------
(***************************************************************************)
(* A model of the knowledge-graph creation pipeline: pipeline.py (main)    *)
(* and pipelineUtils.py (load_config, clean_data, split_dataset, mapping,  *)
(* execute_rml, upload_rdf_data_to_graphdb, upload).                       *)
(*                                                                         *)
(* The filesystem, the external mapper process and the GraphDB endpoint    *)
(* are the environment.  Strings that the code rewrites are sequences of   *)
(* tokens, so that the rewriting is computed and not assumed.              *)
(***************************************************************************)
EXTENDS Integers, Sequences, FiniteSets, TLC

VARIABLES
    pc,          \* position of the thread of control
    exc,         \* the exception that left main uncaught ("none" if none)
    flags,       \* main's arguments clean, split, map, upload
    cfgFile,     \* what is at config_path
    config,      \* the value load_config returned
    trace,       \* stages started / returned / raised, in order
    log,         \* logging.error messages, in order
    inputCsv,    \* rows of config["clean_data"]["input"]
    cleanCsv,    \* config["clean_data"]["output"]: [exists, rows]
    recleanCsv,  \* output of clean_data applied to cleanCsv: [exists, rows]
    splitCsv,    \* rows of config["split_dataset"]["dataset_path"]
    nChunks,     \* config["split_dataset"]["n_chunks"]
    chunkSize,   \* split_dataset's chunk_size
    splitI,      \* split_dataset's loop index i
    csvKind,     \* what is at config["split_dataset"]["output_dir"]
    csvFiles,    \* os.listdir of that directory: chunk indices
    chunks,      \* contents of the chunk files written: index -> rows
    rmlKind,     \* what is at config["mapping"]["rml_path"]
    rmlFiles,    \* number of files os.listdir(rml_path) returns
    mapI,        \* mapping's loop index i (CSV file)
    mapJ,        \* mapping's loop index j (rule file)
    tmpExists,   \* tmp_mapping.rml.ttl exists
    invocations, \* mapper processes run: [csv, rml, out, code]
    rdfKind,     \* what is at config["mapping"]["output_path"]
    rdfFiles,    \* os.listdir of that directory: RDF file names
    upI,         \* upload_rdf_data_to_graphdb's position in the listing
    requests     \* POST requests issued: [file, status]

ctlVars   == <<pc, exc, flags, cfgFile, config, trace, log>>
cleanVars == <<inputCsv, cleanCsv, recleanCsv>>
splitVars == <<splitCsv, nChunks, chunkSize, splitI, chunks>>
csvVars   == <<csvKind, csvFiles>>
mapVars   == <<rmlKind, rmlFiles, mapI, mapJ, tmpExists, invocations>>
rdfVars   == <<rdfKind, rdfFiles>>
upVars    == <<upI, requests>>
vars == <<ctlVars, cleanVars, splitVars, csvVars, mapVars, rdfVars, upVars>>

-----------------------------------------------------------------------------
(* Bounds *)

MaxRows     == 5   \* rows of the dataset split_dataset reads
MaxChunks   == 4   \* largest n_chunks
MaxCleanRows == 2  \* rows of the dataset clean_data reads
MaxCsv      == 3   \* CSV files in the mapping's CSV directory
MaxRml      == 2   \* rule files in the mapping's rule directory
MaxRdf      == 5   \* RDF files in the upload directory
MainRows    == 2   \* rows of the split dataset in a run of main
MainChunks  == 2   \* largest n_chunks in a run of main
MainFiles   == 1   \* files of each directory at the start of a run of main

NoContent == 204   \* the only status upload treats as success
ServerError == 500 \* a status other than 204

PathKinds == {"dir", "file", "none"}
Stages == <<"clean", "split", "map", "upload">>

Absent == [exists |-> FALSE, rows |-> <<>>]

-----------------------------------------------------------------------------
(* Sequence helpers *)

RECURSIVE Flatten(_)
Flatten(ss) == IF ss = <<>> THEN <<>> ELSE Head(ss) \o Flatten(Tail(ss))

Range(s) == {s[k] : k \in 1..Len(s)}

\* data.iloc[a:b] on a table of rows (0-based, end exclusive, clipped)
Slice(rows, a, b) ==
    LET lo == IF a > Len(rows) THEN Len(rows) ELSE a
        hi == IF b > Len(rows) THEN Len(rows) ELSE b
    IN  IF hi <= lo THEN <<>> ELSE SubSeq(rows, lo + 1, hi)

SeqsUpTo(S, n) == UNION {[1..k -> S] : k \in 0..n}

\* a directory listing with name added (an existing name is overwritten)
AddFile(listing, name) ==
    IF name \in Range(listing) THEN listing ELSE Append(listing, name)

-----------------------------------------------------------------------------
(* convert_to_iso8601, remove_numbers and the column rewrites of clean_data *)

\* A timestamp string: its date/time separator and its fraction of a second
\* ("none": no fraction, "0": .000000, "5": .500000).
RawStamps == [sep : {" "}, frac : {"0", "5"}]          \* 2021-03-04 10:15:30.5
BadStamps == {[sep |-> "/", frac |-> "none"]}          \* 04/03/2021
IsoStamps == {[sep |-> "T", frac |-> "5"]}             \* 2021-03-04T10:15:30.5
Stamps    == RawStamps \cup BadStamps \cup IsoStamps

\* datetime.strptime(date_str, "%Y-%m-%d %H:%M:%S.%f") succeeds
StrptimeOk(ts) == ts.sep = " " /\ ts.frac # "none"

\* date_obj.isoformat(): "T" separator, the fraction left out when it is zero
IsoFormat(ts) ==
    [sep |-> "T", frac |-> IF ts.frac = "0" THEN "none" ELSE ts.frac]

convert_to_iso8601(ts) == IsoFormat(ts)

NaN == <<"NaN">>

\* the unit column: .replace("-", "Dimensionless") replaces whole values
Dash == <<"-">>
Dimensionless == <<"Dimensionless">>
ReplaceUnit(u) == IF u = Dash THEN Dimensionless ELSE u

\* the quality column: re.sub of the pattern "Qualita della misura: " by ""
QualityPrefix == <<"Qualita della ", "misura: ">>

StartsWith(s, p) == Len(s) >= Len(p) /\ SubSeq(s, 1, Len(p)) = p

RECURSIVE ReSubPrefix(_)
ReSubPrefix(s) ==
    IF s = <<>> THEN <<>>
    ELSE IF StartsWith(s, QualityPrefix)
         THEN ReSubPrefix(SubSeq(s, Len(QualityPrefix) + 1, Len(s)))
         ELSE <<Head(s)>> \o ReSubPrefix(Tail(s))

ReplaceQuality(q) == IF q = NaN THEN NaN ELSE ReSubPrefix(q)

RECURSIVE HasPrefixInside(_)
HasPrefixInside(s) ==
    /\ s # <<>>
    /\ \/ StartsWith(s, QualityPrefix)
       \/ HasPrefixInside(Tail(s))

\* remove_numbers: re.sub(r"\d+", "", text)
Digits == {"1", "2"}

RECURSIVE remove_numbers(_)
remove_numbers(text) ==
    IF text = <<>> THEN <<>>
    ELSE IF Head(text) \in Digits
         THEN remove_numbers(Tail(text))
         ELSE <<Head(text)>> \o remove_numbers(Tail(text))

\* .str.replace(r"^Current.*", "Current", regex=True)
CollapseCurrent(p) ==
    IF p # <<>> /\ Head(p) = "Current" THEN <<"Current">> ELSE p

\* one row of the table after the four column rewrites
CleanRow(r) ==
    [ts       |-> convert_to_iso8601(r.ts),
     unit     |-> ReplaceUnit(r.unit),
     quality  |-> ReplaceQuality(r.quality),
     register |-> r.register,
     property |-> CollapseCurrent(remove_numbers(r.register))]

\* clean_data on a table: the apply of convert_to_iso8601 raises ValueError
\* on the first row that does not parse, before any column is rewritten
CleanTable(rows) ==
    IF \A k \in 1..Len(rows) : StrptimeOk(rows[k].ts)
    THEN [ok |-> TRUE,  rows |-> [k \in 1..Len(rows) |-> CleanRow(rows[k])]]
    ELSE [ok |-> FALSE, rows |-> <<>>]

\* to_csv followed by read_csv: an empty string comes back as NaN
CsvField(f) == IF f = <<>> THEN NaN ELSE f

ReadCsv(rows) ==
    [k \in 1..Len(rows) |->
        [ts       |-> rows[k].ts,
         unit     |-> CsvField(rows[k].unit),
         quality  |-> CsvField(rows[k].quality),
         register |-> rows[k].register,
         property |-> CsvField(rows[k].property)]]

Units     == {Dash, <<"kWh">>, Dimensionless}
Qualities == {<<"Qualita della ", "misura: ", "Good">>,
              <<"Good">>,
              <<"Qualita della ", "Qualita della ", "misura: ", "misura: ", "Good">>}
Registers == {<<"Current", "1", "A">>, <<"Voltage", "2">>}

InputRows == [ts : Stamps, unit : Units, quality : Qualities,
              register : Registers, property : {NaN}]

GoodRow == [ts |-> [sep |-> " ", frac |-> "5"], unit |-> Dash,
            quality |-> <<"Qualita della ", "misura: ", "Good">>,
            register |-> <<"Current", "1", "A">>, property |-> NaN]

BadRow == [GoodRow EXCEPT !.ts = [sep |-> "/", frac |-> "none"]]

\* datasets of the cleaning specification and of a run of main
CleanInputs == SeqsUpTo(InputRows, MaxCleanRows)
MainCleanInputs == {<<>>, <<GoodRow>>, <<BadRow>>, <<GoodRow, BadRow>>}

-----------------------------------------------------------------------------
(* main: load_config and the four flag-gated stages *)

Event(kind, stage) == <<kind, stage>>

\* load_config: the parsed document, or None after logging the failure
load_config(file) ==
    CASE file = "ok"         -> "dict"
      [] file = "empty"      -> "emptydict"
      [] file = "absent"     -> "None"
      [] file = "malformed"  -> "None"
      [] file = "unreadable" -> "None"

LoadConfigLog(file) ==
    CASE file = "absent"     -> <<"The file was not found">>
      [] file = "malformed"  -> <<"Failed to decode JSON">>
      [] file = "unreadable" -> <<"An unexpected error occurred">>
      [] OTHER               -> <<>>

ConfigFiles == {"ok", "empty", "absent", "malformed", "unreadable"}
FailingConfigFiles == {"absent", "malformed", "unreadable"}

\* main's test "if not config"
\* (variant: the test never fires)
NotConfigMut(c) == FALSE
NotConfig(c) == c \in {"None", "emptydict"}

\* main's tests of its four flags
CleanFlag == flags.clean
\* (variant: the split stage is not gated)
SplitFlagMut == TRUE
SplitFlag == flags.split
MapFlag == flags.map
UploadFlag == flags.upload

\* an exception nothing catches leaves main
Raise(stage, e) ==
    /\ pc' = "raised"
    /\ exc' = e
    /\ trace' = Append(trace, Event("raise", stage))

LoadConfig ==
    /\ pc = "load"
    /\ config' = load_config(cfgFile)
    /\ IF NotConfig(config')
       THEN /\ log' = log \o LoadConfigLog(cfgFile)
                          \o <<"Failed to load configuration. Exiting.">>
            /\ pc' = "done"
       ELSE /\ log' = log
            /\ pc' = "clean"
    /\ UNCHANGED <<exc, flags, cfgFile, trace>>
    /\ UNCHANGED <<cleanVars, splitVars, csvVars, mapVars, rdfVars, upVars>>

-----------------------------------------------------------------------------
(* clean_data *)

CleanSkip ==
    /\ pc = "clean"
    /\ ~CleanFlag
    /\ pc' = "split"
    /\ UNCHANGED <<exc, flags, cfgFile, config, trace, log>>
    /\ UNCHANGED <<cleanVars, splitVars, csvVars, mapVars, rdfVars, upVars>>

\* clean_data(input, output) on a dataset drawn from Inputs
CleanData(Inputs) ==
    /\ pc = "clean"
    /\ CleanFlag
    /\ \E rows \in Inputs :
        LET res == CleanTable(rows) IN
        /\ inputCsv' = rows
        /\ IF res.ok
           THEN /\ cleanCsv' = [exists |-> TRUE, rows |-> res.rows]
                /\ trace' = trace \o <<Event("start", "clean"),
                                       Event("return", "clean")>>
                /\ pc' = "split"
                /\ exc' = exc
           ELSE /\ cleanCsv' = cleanCsv
                /\ trace' = trace \o <<Event("start", "clean"),
                                       Event("raise", "clean")>>
                /\ pc' = "raised"
                /\ exc' = "ValueError"
    /\ UNCHANGED <<flags, cfgFile, config, log, recleanCsv>>
    /\ UNCHANGED <<splitVars, csvVars, mapVars, rdfVars, upVars>>

\* clean_data applied to the file a successful clean_data wrote
CleanAgain ==
    /\ pc = "split"
    /\ cleanCsv.exists
    /\ ~recleanCsv.exists
    /\ LET res == CleanTable(ReadCsv(cleanCsv.rows)) IN
       IF res.ok
       THEN /\ recleanCsv' = [exists |-> TRUE, rows |-> res.rows]
            /\ trace' = trace \o <<Event("start", "clean"),
                                   Event("return", "clean")>>
            /\ pc' = "recleaned"
            /\ exc' = exc
       ELSE /\ recleanCsv' = recleanCsv
            /\ trace' = trace \o <<Event("start", "clean"),
                                   Event("raise", "clean")>>
            /\ pc' = "raised"
            /\ exc' = "ValueError"
    /\ UNCHANGED <<flags, cfgFile, config, log, inputCsv, cleanCsv>>
    /\ UNCHANGED <<splitVars, csvVars, mapVars, rdfVars, upVars>>

-----------------------------------------------------------------------------
(* split_dataset *)

\* the rows of a dataset are told apart by their position in the source
Dataset(r) == [k \in 1..r |-> k]

SplitInputs == {<<Dataset(r), n>> : r \in 0..MaxRows, n \in 1..MaxChunks}
MainSplitInputs == {<<Dataset(r), n>> : r \in 0..MainRows, n \in 1..MainChunks}

\* the rows of chunk i
\* (variant: the last chunk is cut like the others)
ChunkRowsMut(data, i, n, size) == Slice(data, i * size, i * size + size)
ChunkRows(data, i, n, size) ==
    IF i = n - 1
    THEN Slice(data, i * size, Len(data))
    ELSE Slice(data, i * size, i * size + size)

SplitSkip ==
    /\ pc = "split"
    /\ ~SplitFlag
    /\ pc' = "map"
    /\ UNCHANGED <<exc, flags, cfgFile, config, trace, log>>
    /\ UNCHANGED <<cleanVars, splitVars, csvVars, mapVars, rdfVars, upVars>>

\* read_csv, chunk_size, os.makedirs
SplitBegin(Inputs) ==
    /\ pc = "split"
    /\ SplitFlag
    /\ \E in \in Inputs :
        /\ splitCsv' = in[1]
        /\ nChunks' = in[2]
        /\ chunkSize' = Len(in[1]) \div in[2]
    /\ splitI' = 0
    /\ chunks' = <<>>
    /\ IF csvKind = "none"
       THEN csvKind' = "dir" /\ csvFiles' = <<>>
       ELSE UNCHANGED csvVars
    /\ trace' = Append(trace, Event("start", "split"))
    /\ pc' = "split_loop"
    /\ UNCHANGED <<exc, flags, cfgFile, config, log>>
    /\ UNCHANGED <<cleanVars, mapVars, rdfVars, upVars>>

\* one iteration of the loop: chunk i is cut and written to data_chunk_i
SplitChunk ==
    /\ pc = "split_loop"
    /\ splitI < nChunks
    /\ IF csvKind = "file"
       THEN /\ Raise("split", "OSError")
            /\ UNCHANGED <<splitI, chunks, csvFiles>>
       ELSE /\ chunks' = Append(chunks,
                                ChunkRows(splitCsv, splitI, nChunks, chunkSize))
            /\ csvFiles' = AddFile(csvFiles, splitI)
            /\ splitI' = splitI + 1
            /\ IF splitI + 1 = nChunks
               THEN /\ pc' = "map"
                    /\ trace' = Append(trace, Event("return", "split"))
               ELSE /\ pc' = "split_loop"
                    /\ trace' = trace
            /\ exc' = exc
    /\ UNCHANGED <<flags, cfgFile, config, log>>
    /\ UNCHANGED <<splitCsv, nChunks, chunkSize, csvKind>>
    /\ UNCHANGED <<cleanVars, mapVars, rdfVars, upVars>>

-----------------------------------------------------------------------------
(* mapping and execute_rml *)

\* names of the files under config["mapping"]["output_path"]
OutputIJ(i, j) == [kind |-> "output", i |-> i, j |-> j]   \* output_{i}_{j}.ttl
OutputI(i)     == [kind |-> "output", i |-> i, j |-> -1]  \* output_{i}.ttl
OutputDir      == [kind |-> "dir",    i |-> -1, j |-> -1] \* output_dir itself
OtherRdf(k)    == [kind |-> "other",  i |-> k, j |-> -1]  \* a file already there

\* exit codes of the external mapper process
ExitCodes == {0, 1}

\* "except subprocess.CalledProcessError" catches the failed process
\* (variant: no except clause)
CatchesCalledProcessErrorMut == FALSE
CatchesCalledProcessError == TRUE

\* the arguments of the execute_rml call the loops are at
CurrentCall ==
    CASE rmlKind = "dir" /\ csvKind = "dir" ->
            [csv |-> csvFiles[mapI + 1], rml |-> mapJ, out |-> OutputIJ(mapI, mapJ)]
      [] rmlKind = "dir" /\ csvKind = "file" ->
            [csv |-> -1, rml |-> mapJ, out |-> OutputDir]
      [] rmlKind = "file" /\ csvKind = "dir" ->
            [csv |-> csvFiles[mapI + 1], rml |-> -1, out |-> OutputI(mapI)]
      [] OTHER ->
            [csv |-> -1, rml |-> -1, out |-> OutputDir]

\* mapping returns to main
MapReturn ==
    /\ pc' = "upload"
    /\ trace' = Append(trace, Event("return", "map"))
    /\ exc' = exc

MapSkip ==
    /\ pc = "map"
    /\ ~MapFlag
    /\ pc' = "upload"
    /\ UNCHANGED <<exc, flags, cfgFile, config, trace, log>>
    /\ UNCHANGED <<cleanVars, splitVars, csvVars, mapVars, rdfVars, upVars>>

\* mapping up to its first execute_rml call, its return or its exception
MapBegin ==
    /\ pc = "map"
    /\ MapFlag
    /\ mapI' = 0
    /\ mapJ' = 0
    /\ LET started == Append(trace, Event("start", "map"))
           return  == /\ pc' = "upload"
                      /\ trace' = Append(started, Event("return", "map"))
                      /\ exc' = exc
           call    == /\ pc' = "exec"
                      /\ trace' = started
                      /\ exc' = exc
       IN
       CASE rmlKind = "dir" ->
              IF rmlFiles = 0
              THEN return /\ log' = log
              ELSE CASE csvKind = "dir" ->
                          /\ log' = log
                          /\ IF csvFiles = <<>> THEN return ELSE call
                     [] csvKind = "file" ->
                          call /\ log' = log
                     [] OTHER ->
                          /\ log' = log \o [k \in 1..rmlFiles |->
                                              "Invalid CSV file path"]
                          /\ return
         [] rmlKind = "file" ->
              CASE csvKind = "dir" ->
                     /\ log' = log
                     /\ IF csvFiles = <<>>
                        THEN return
                        \* the log line of the loop names rml_file, which this
                        \* branch never binds: UnboundLocalError
                        ELSE /\ pc' = "raised"
                             /\ exc' = "UnboundLocalError"
                             /\ trace' = Append(started, Event("raise", "map"))
                [] csvKind = "file" ->
                     call /\ log' = log
                [] OTHER ->
                     /\ log' = Append(log, "Invalid CSV file path")
                     /\ return
         [] OTHER ->
              return /\ log' = log
    /\ UNCHANGED <<flags, cfgFile, config>>
    /\ UNCHANGED <<rmlKind, rmlFiles, tmpExists, invocations>>
    /\ UNCHANGED <<cleanVars, splitVars, csvVars, rdfVars, upVars>>

\* execute_rml: the rule file is read and tmp_mapping.rml.ttl written
ExecWrite ==
    /\ pc = "exec"
    /\ tmpExists' = TRUE
    /\ pc' = "exec_written"
    /\ UNCHANGED <<exc, flags, cfgFile, config, trace, log>>
    /\ UNCHANGED <<rmlKind, rmlFiles, mapI, mapJ, invocations>>
    /\ UNCHANGED <<cleanVars, splitVars, csvVars, rdfVars, upVars>>

\* execute_rml: subprocess.run of the mapper, check=True.  The mapper is
\* external: it exits with any code, and after exit code 0 its output file is
\* in the output directory when that directory exists.
ExecRun ==
    /\ pc = "exec_written"
    /\ \E code \in ExitCodes :
        /\ invocations' = Append(invocations,
               [csv |-> CurrentCall.csv, rml |-> CurrentCall.rml,
                out |-> CurrentCall.out, code |-> code])
        /\ IF code = 0
           THEN /\ log' = log
                /\ pc' = "exec_ran"
                /\ UNCHANGED <<exc, trace>>
                /\ IF rdfKind = "dir" /\ CurrentCall.out.kind = "output"
                   THEN rdfFiles' = AddFile(rdfFiles, CurrentCall.out)
                   ELSE rdfFiles' = rdfFiles
           ELSE /\ rdfFiles' = rdfFiles
                /\ IF CatchesCalledProcessError
                   THEN /\ log' = Append(log, "Error: mapper exit code")
                        /\ pc' = "exec_ran"
                        /\ UNCHANGED <<exc, trace>>
                   ELSE /\ log' = log
                        /\ Raise("map", "CalledProcessError")
    /\ UNCHANGED <<flags, cfgFile, config, rdfKind>>
    /\ UNCHANGED <<rmlKind, rmlFiles, mapI, mapJ, tmpExists>>
    /\ UNCHANGED <<cleanVars, splitVars, csvVars, upVars>>

\* execute_rml: os.remove(tmp_rml_file); then mapping's loops move on
ExecRemove ==
    /\ pc = "exec_ran"
    /\ tmpExists' = FALSE
    /\ CASE rmlKind = "dir" /\ csvKind = "dir" /\ mapI + 1 < Len(csvFiles) ->
              /\ mapI' = mapI + 1
              /\ mapJ' = mapJ
              /\ pc' = "exec"
              /\ UNCHANGED <<exc, trace>>
         [] rmlKind = "dir" /\ csvKind = "dir" /\ mapI + 1 >= Len(csvFiles)
                            /\ mapJ + 1 < rmlFiles ->
              /\ mapI' = 0
              /\ mapJ' = mapJ + 1
              /\ pc' = "exec"
              /\ UNCHANGED <<exc, trace>>
         [] rmlKind = "dir" /\ csvKind = "file" /\ mapJ + 1 < rmlFiles ->
              /\ mapI' = mapI
              /\ mapJ' = mapJ + 1
              /\ pc' = "exec"
              /\ UNCHANGED <<exc, trace>>
         [] rmlKind = "file" /\ csvKind = "dir" /\ mapI + 1 < Len(csvFiles) ->
              /\ mapI' = mapI + 1
              /\ mapJ' = mapJ
              /\ pc' = "exec"
              /\ UNCHANGED <<exc, trace>>
         [] OTHER ->
              /\ UNCHANGED <<mapI, mapJ>>
              /\ MapReturn
    /\ UNCHANGED <<flags, cfgFile, config, log>>
    /\ UNCHANGED <<rmlKind, rmlFiles, invocations>>
    /\ UNCHANGED <<cleanVars, splitVars, csvVars, rdfVars, upVars>>

-----------------------------------------------------------------------------
(* upload_rdf_data_to_graphdb and upload *)

Statuses == {NoContent, ServerError}

\* what upload does once the response is there: both branches only log
\* (variant: a failure status raises, as response.raise_for_status() would)
AfterResponseMut(status) == IF status = NoContent THEN "continue" ELSE "raise"
AfterResponse(status) == "continue"

UploadSkip ==
    /\ pc = "upload"
    /\ ~UploadFlag
    /\ pc' = "done"
    /\ UNCHANGED <<exc, flags, cfgFile, config, trace, log>>
    /\ UNCHANGED <<cleanVars, splitVars, csvVars, mapVars, rdfVars, upVars>>

\* the file the next request is for
CurrentRdf == IF rdfKind = "dir" THEN rdfFiles[upI + 1] ELSE OutputDir

\* upload_rdf_data_to_graphdb up to its first upload call or its return
UploadBegin ==
    /\ pc = "upload"
    /\ UploadFlag
    /\ upI' = 0
    /\ LET started == Append(trace, Event("start", "upload")) IN
       CASE rdfKind = "dir" /\ rdfFiles # <<>> ->
              /\ pc' = "upload_loop"
              /\ trace' = started
              /\ log' = log
         [] rdfKind = "dir" /\ rdfFiles = <<>> ->
              /\ pc' = "done"
              /\ trace' = Append(started, Event("return", "upload"))
              /\ log' = log
         [] rdfKind = "file" ->
              /\ pc' = "upload_loop"
              /\ trace' = started
              /\ log' = log
         [] OTHER ->
              /\ pc' = "done"
              /\ trace' = Append(started, Event("return", "upload"))
              /\ log' = Append(log, "Invalid file path.")
    /\ UNCHANGED <<exc, flags, cfgFile, config, requests>>
    /\ UNCHANGED <<cleanVars, splitVars, csvVars, mapVars, rdfVars>>

\* upload: requests.post returns a response
UploadFile ==
    /\ pc = "upload_loop"
    /\ \E status \in Statuses :
        /\ requests' = Append(requests,
               [file |-> CurrentRdf, answered |-> TRUE, status |-> status])
        /\ log' = IF status = NoContent
                  THEN log
                  ELSE Append(log, "Failed to upload RDF file")
        /\ IF AfterResponse(status) = "continue"
           THEN /\ upI' = upI + 1
                /\ exc' = exc
                /\ IF rdfKind = "dir" /\ upI + 1 < Len(rdfFiles)
                   THEN pc' = "upload_loop" /\ trace' = trace
                   ELSE /\ pc' = "done"
                        /\ trace' = Append(trace, Event("return", "upload"))
           ELSE /\ upI' = upI
                /\ Raise("upload", "HTTPError")
    /\ UNCHANGED <<flags, cfgFile, config>>
    /\ UNCHANGED <<cleanVars, splitVars, csvVars, mapVars, rdfVars>>

\* upload: requests.post raises (no connection); nothing catches it
UploadTransportFailure ==
    /\ pc = "upload_loop"
    /\ requests' = Append(requests,
           [file |-> CurrentRdf, answered |-> FALSE, status |-> 0])
    /\ Raise("upload", "ConnectionError")
    /\ UNCHANGED <<flags, cfgFile, config, log, upI>>
    /\ UNCHANGED <<cleanVars, splitVars, csvVars, mapVars, rdfVars>>

-----------------------------------------------------------------------------
(* Initial states *)

AllFlags == [clean : BOOLEAN, split : BOOLEAN, map : BOOLEAN, upload : BOOLEAN]
NoFlags == [clean |-> FALSE, split |-> FALSE, map |-> FALSE, upload |-> FALSE]

\* a directory holding the chunk files 0..k-1 of an earlier run
CsvListing(k) == [x \in 1..k |-> x - 1]
\* a directory holding k RDF files that mapping did not write in this run
RdfListing(k) == [x \in 1..k |-> OtherRdf(x)]

\* nothing has run yet
Fresh ==
    /\ exc = "none"
    /\ trace = <<>>
    /\ log = <<>>
    /\ inputCsv = <<>>
    /\ cleanCsv = Absent
    /\ recleanCsv = Absent
    /\ splitCsv = <<>>
    /\ nChunks = 1
    /\ chunkSize = 0
    /\ splitI = 0
    /\ chunks = <<>>
    /\ mapI = 0
    /\ mapJ = 0
    /\ tmpExists = FALSE
    /\ invocations = <<>>
    /\ upI = 0
    /\ requests = <<>>

\* the split output directory, which is also the mapping's CSV path
CsvPath(n) ==
    /\ csvKind \in PathKinds
    /\ \E k \in 0..n : csvFiles = IF csvKind = "dir" THEN CsvListing(k) ELSE <<>>

RmlPath(n) ==
    /\ rmlKind \in PathKinds
    /\ \E k \in 0..n : rmlFiles = IF rmlKind = "dir" THEN k ELSE 0

\* the mapping output path, which is also the upload's RDF path
RdfPath(n) ==
    /\ rdfKind \in PathKinds
    /\ \E k \in 0..n : rdfFiles = IF rdfKind = "dir" THEN RdfListing(k) ELSE <<>>

NoCsvPath == csvKind = "none" /\ csvFiles = <<>>
NoRmlPath == rmlKind = "none" /\ rmlFiles = 0
NoRdfPath == rdfKind = "none" /\ rdfFiles = <<>>

\* python pipeline.py -s config [-c] [-p] [-m] [-u] [-a]
Init ==
    /\ pc = "load"
    /\ flags \in AllFlags
    /\ cfgFile \in ConfigFiles
    /\ config = "unloaded"
    /\ Fresh
    /\ CsvPath(MainFiles)
    /\ RmlPath(MainFiles)
    /\ RdfPath(MainFiles)

Next ==
    \/ LoadConfig
    \/ CleanSkip
    \/ CleanData(MainCleanInputs)
    \/ SplitSkip
    \/ SplitBegin(MainSplitInputs)
    \/ SplitChunk
    \/ MapSkip
    \/ MapBegin
    \/ ExecWrite
    \/ ExecRun
    \/ ExecRemove
    \/ UploadSkip
    \/ UploadBegin
    \/ UploadFile
    \/ UploadTransportFailure

Spec == Init /\ [][Next]_vars

\* clean_data called on a dataset, then on its own output
InitClean ==
    /\ pc = "clean"
    /\ flags = [NoFlags EXCEPT !.clean = TRUE]
    /\ cfgFile = "ok"
    /\ config = "dict"
    /\ Fresh
    /\ NoCsvPath /\ NoRmlPath /\ NoRdfPath

NextClean == CleanData(CleanInputs) \/ CleanAgain

SpecClean == InitClean /\ [][NextClean]_vars

\* split_dataset called on a dataset and a chunk count
InitSplit ==
    /\ pc = "split"
    /\ flags = [NoFlags EXCEPT !.split = TRUE]
    /\ cfgFile = "ok"
    /\ config = "dict"
    /\ Fresh
    /\ CsvPath(MaxCsv)
    /\ NoRmlPath /\ NoRdfPath

NextSplit == SplitBegin(SplitInputs) \/ SplitChunk

SpecSplit == InitSplit /\ [][NextSplit]_vars

\* mapping called on a CSV path and a rule path
InitMapping ==
    /\ pc = "map"
    /\ flags = [NoFlags EXCEPT !.map = TRUE]
    /\ cfgFile = "ok"
    /\ config = "dict"
    /\ Fresh
    /\ CsvPath(MaxCsv)
    /\ RmlPath(MaxRml)
    /\ RdfPath(1)

NextMapping == MapBegin \/ ExecWrite \/ ExecRun \/ ExecRemove

SpecMapping == InitMapping /\ [][NextMapping]_vars

\* upload_rdf_data_to_graphdb called on an RDF path
InitUpload ==
    /\ pc = "upload"
    /\ flags = [NoFlags EXCEPT !.upload = TRUE]
    /\ cfgFile = "ok"
    /\ config = "dict"
    /\ Fresh
    /\ NoCsvPath /\ NoRmlPath
    /\ RdfPath(MaxRdf)

NextUpload == UploadBegin \/ UploadFile \/ UploadTransportFailure

SpecUpload == InitUpload /\ [][NextUpload]_vars

-----------------------------------------------------------------------------
(* Properties *)

StageIndex(s) == CHOOSE k \in 1..Len(Stages) : Stages[k] = s

\* C1: when split_dataset has returned, it has written exactly n_chunks chunk
\* files data_chunk_0 .. data_chunk_{N-1}; each of the first N-1 holds
\* floor(R/N) rows, the last holds the remaining R - (N-1)*floor(R/N) rows,
\* the row counts sum to R, and the chunks concatenated in index order are
\* the source rows in source order (also when R < N or N does not divide R).
C1_SplitPartition ==
    pc = "map" =>
        LET R == Len(splitCsv)
            N == nChunks
        IN  /\ Len(chunks) = N
            /\ \A i \in 0..(N - 1) : i \in Range(csvFiles)
            /\ \A i \in 1..(N - 1) : Len(chunks[i]) = R \div N
            /\ Len(chunks[N]) = R - (N - 1) * (R \div N)
            /\ Len(Flatten(chunks)) = R
            /\ Flatten(chunks) = splitCsv

\* split_dataset has returned for a row count above the chunk count that the
\* chunk count does not divide
C1_Witness ==
    /\ pc = "map"
    /\ nChunks >= 2
    /\ Len(splitCsv) > nChunks
    /\ Len(splitCsv) % nChunks # 0

C3_StageOrder ==
    \A k \in 1..Len(trace) :
        trace[k][1] = "start" =>
            /\ flags[trace[k][2]]
            /\ k > 1 =>
                /\ trace[k - 1][1] = "return"
                /\ StageIndex(trace[k - 1][2]) < StageIndex(trace[k][2])

\* a finished run that cleaned, skipped the split, mapped and uploaded
C3_Witness ==
    /\ pc = "done"
    /\ flags = [clean |-> TRUE, split |-> FALSE, map |-> TRUE, upload |-> TRUE]
    /\ Len(trace) = 6

\* C4: when the configuration file is absent, malformed or unreadable,
\* load_config returns None without raising, and main returns without having
\* started any stage or touched any file, whatever the flags.
C4_ConfigFailureAborts ==
    cfgFile \in FailingConfigFiles =>
        \/ pc = "load"
        \/ /\ pc = "done"
           /\ config = "None"
           /\ exc = "none"
           /\ trace = <<>>
           /\ ~cleanCsv.exists
           /\ chunks = <<>>
           /\ invocations = <<>>
           /\ requests = <<>>

\* main has returned after a malformed configuration, all four flags set
C4_Witness ==
    /\ cfgFile = "malformed"
    /\ pc = "done"
    /\ flags = [clean |-> TRUE, split |-> TRUE, map |-> TRUE, upload |-> TRUE]

AllAnswered == \A k \in 1..Len(requests) : requests[k].answered

Failures == {k \in 1..Len(requests) : requests[k].status # NoContent}

\* C5: on a directory of k RDF files, as long as every request got a response,
\* the requests issued are one per file in listing order, every response with
\* a status other than 204 is logged and the next file is still requested,
\* and exactly k requests have been issued when the upload returns.
C5_OneRequestPerFile ==
    (rdfKind = "dir" /\ AllAnswered) =>
        /\ pc # "raised"
        /\ Len(requests) <= Len(rdfFiles)
        /\ \A k \in 1..Len(requests) : requests[k].file = rdfFiles[k]
        /\ pc = "upload_loop" => Len(requests) = upI /\ upI < Len(rdfFiles)
        /\ pc = "done" => Len(requests) = Len(rdfFiles)
        /\ Len(log) = Cardinality(Failures)

\* three files uploaded, the second one answered with a 500
C5_Witness ==
    /\ pc = "done"
    /\ rdfKind = "dir"
    /\ Len(rdfFiles) = 3
    /\ Len(requests) = 3
    /\ requests[1].status = NoContent
    /\ requests[2].status = ServerError
    /\ requests[3].status = NoContent

\* C6: with a rule file and a directory of k CSV files, mapping ends after
\* exactly k mapper invocations, the i-th one for the i-th CSV file of the
\* listing, against the rule file, writing output_{i}.ttl.
C6_OneInvocationPerCsv ==
    (rmlKind = "file" /\ csvKind = "dir" /\ pc \in {"upload", "raised"}) =>
        /\ Len(invocations) = Len(csvFiles)
        /\ \A k \in 1..Len(invocations) :
            /\ invocations[k].csv = csvFiles[k]
            /\ invocations[k].rml = -1
            /\ invocations[k].out = OutputI(k - 1)

\* C7: a request that raised instead of returning a response does not end
\* the run with an exception, and when the run is done a request was
\* attempted for every file of the directory.
C7_TransportFailureIsolated ==
    ~AllAnswered =>
        /\ pc # "raised"
        /\ (pc = "done" /\ rdfKind = "dir") => Len(requests) = Len(rdfFiles)

CleanFailed == Event("raise", "clean") \in Range(trace)

\* C8: after clean_data failed on a malformed timestamp, the run does not end
\* with an exception, and when it is done every later stage whose flag is set
\* has been started.
C8_CleanFailureIsolated ==
    CleanFailed =>
        /\ pc # "raised"
        /\ pc = "done" =>
            \A s \in {"split", "map", "upload"} :
                flags[s] => Event("start", s) \in Range(trace)

\* C9: when mapping has returned and its rule path or its CSV path was
\* neither a file nor a directory, an error has been logged and the mapper
\* was never invoked.
C9_InvalidPathReported ==
    (pc = "upload" /\ (rmlKind = "none" \/ csvKind = "none")) =>
        /\ log # <<>>
        /\ invocations = <<>>

\* C10: clean_data applied to the output of a successful clean_data completes
\* and leaves the unit and the quality column as they were; neither output has
\* a "-" unit or a quality value with the prefix in it.
C10_CleanIdempotent ==
    (cleanCsv.exists /\ pc \in {"recleaned", "raised"}) =>
        /\ pc = "recleaned"
        /\ recleanCsv.exists
        /\ Len(recleanCsv.rows) = Len(cleanCsv.rows)
        /\ \A k \in 1..Len(recleanCsv.rows) :
            /\ recleanCsv.rows[k].unit = ReadCsv(cleanCsv.rows)[k].unit
            /\ recleanCsv.rows[k].quality = ReadCsv(cleanCsv.rows)[k].quality
            /\ recleanCsv.rows[k].unit # Dash
            /\ cleanCsv.rows[k].unit # Dash
            /\ ~HasPrefixInside(recleanCsv.rows[k].quality)
            /\ ~HasPrefixInside(cleanCsv.rows[k].quality)

=============================================================================
